---- MODULE Spec2Model ----
(***************************************************************************)
(* Fluent CRM Contact Manager (src/app.py): the session state, the         *)
(* sidebar's connection test, the page functions and the paginated         *)
(* fetch_contacts loop, as a state machine.                                *)
(*                                                                         *)
(* One script run of the application is: the sidebar (configuration        *)
(* inputs, the Test Connection button), then the function of the selected  *)
(* page.  A run is started by one user event.  The page loop of            *)
(* fetch_contacts takes one step per page request; everything else a run   *)
(* does between two waits for the user is one step.                        *)
(***************************************************************************)
EXTENDS Integers, Sequences, FiniteSets, TLC

(* ------------------------------ bounds --------------------------------- *)

\* Longest page batch the server sends.
MaxBatch == 2
\* Valid records the server holds: no fetch accumulates more.
MaxRecords == 3
\* Pages after the first whose response is any of TailResponses; the pages
\* after them end the fetch.
MaxVaried == 1
\* Script runs of one session.
MaxRuns == 3
\* In the session specification a step adds entries to the error log only
\* while the log holds fewer than MaxLogged entries.
MaxLogged == 1
\* Largest "Max contacts to load" value: the input's range 10..10000
\* (line 371) scaled to 1..MaxInput, so that a ceiling below MaxRecords occurs.
MaxInput == 2
\* Calls of make_api_request in the specification of the API client.
MaxCalls == 3

(* -------------------------- program constants --------------------------- *)

\* Safety limit of the page loop.
PageLimit == 1000
\* Entries the error log keeps.
LogLimit == 100

(* ------------------------------- values --------------------------------- *)

\* Python's None / a present value, as a sequence of length 0 or 1.
None == <<>>
Some(x) == <<x>>
Get(o) == o[1]

\* Ids the server's records carry.
ContactIds == {1, 2}

\* An entry of a page batch: a JSON object or something else; an object has
\* an id or none (absent or null: contact.get("id") is None for both).
Contact(i) == [dict |-> TRUE, id |-> Some(i)]
NoIdDict == [dict |-> TRUE, id |-> None]
NotDict == [dict |-> FALSE, id |-> None]
Entries == {Contact(i) : i \in ContactIds} \cup {NoIdDict, NotDict}

\* A JSON member as the pagination metadata reads it: absent, null, a
\* string, or a number.
JAbsent == [t |-> "absent", n |-> 0]
JNull == [t |-> "null", n |-> 0]
JStr == [t |-> "str", n |-> 0]
JNum(n) == [t |-> "num", n |-> n]
\* The (current_page, last_page) pairs a page body carries.
MetaPairs ==
    {<<JAbsent, JAbsent>>, <<JAbsent, JNum(2)>>, <<JNum(1), JNum(2)>>,
     <<JNum(2), JNum(2)>>, <<JNull, JNum(2)>>, <<JNum(1), JStr>>, <<JStr, JStr>>}

\* dict.get(key, default): the default only when the key is absent.
DictGet(v, default) == IF v.t = "absent" THEN default ELSE v

\* Python's a >= b on two JSON values: defined on two numbers and on two
\* strings (one string value is modelled), a TypeError otherwise.
Comparable(a, b) == (a.t = "num" /\ b.t = "num") \/ (a.t = "str" /\ b.t = "str")
GreaterEq(a, b) == IF a.t = "num" THEN a.n >= b.n ELSE TRUE

(* ------------------------------ responses ------------------------------- *)

\* What one request ends with: a transport failure (kind "timeout",
\* "connection", "error") or a completed round trip (kind "http") with a
\* status and a body.  The body of a subscribers page is unparseable, a
\* JSON object with a 'data' member ("wrapped"), a bare JSON array ("bare")
\* or any other JSON value ("scalar").  The 'data' member is a list, null,
\* or a non-zero number (dtype).
Response(kind, status, shape, dtype, items, cur, last) ==
    [kind |-> kind, status |-> status, shape |-> shape, dtype |-> dtype,
     items |-> items, cur |-> cur, last |-> last]
Transport(kind) == Response(kind, 0, "none", "list", <<>>, JAbsent, JAbsent)
Status(s) == Response("http", s, "none", "list", <<>>, JAbsent, JAbsent)
Unparseable == Response("http", 200, "unparseable", "list", <<>>, JAbsent, JAbsent)
Scalar == Response("http", 200, "scalar", "list", <<>>, JAbsent, JAbsent)
Bare(items) == Response("http", 200, "bare", "list", items, JAbsent, JAbsent)
Wrapped(dtype, items, cur, last) == Response("http", 200, "wrapped", dtype, items, cur, last)
NoResponse == Response("nothing", 0, "none", "list", <<>>, JAbsent, JAbsent)

TransportKinds == {"timeout", "connection", "error"}
\* 200, two success statuses that are not 200, and two error statuses.
Statuses == {200, 201, 204, 401, 404}

Batches == UNION {[1..n -> Entries] : n \in 0..MaxBatch}

Failures ==
    {Transport(k) : k \in TransportKinds} \cup {Status(s) : s \in Statuses \ {200}}

PageResponses ==
    Failures
    \cup {Unparseable, Scalar}
    \cup {Bare(b) : b \in Batches}
    \cup {Wrapped("list", b, m[1], m[2]) : b \in Batches, m \in MetaPairs}
    \cup {Wrapped(d, <<>>, JNum(1), JNum(2)) : d \in {"null", "num"}}

\* The pages after the first one.
TailResponses ==
    {Transport("timeout"), Status(404), Status(204), Unparseable, Wrapped("num", <<>>, JNum(1), JNum(2))}
    \cup {Wrapped("list", <<e>>, m[1], m[2]) :
              e \in Entries, m \in {<<JNum(1), JNum(2)>>, <<JNum(2), JNum(2)>>, <<JNull, JNum(2)>>}}
    \cup {Wrapped("list", <<>>, JNum(1), JNum(2)),
          Wrapped("list", <<Contact(2), Contact(1)>>, JNum(1), JNum(2))}

\* A server whose pagination metadata may never report a last page: every
\* page is a failure, is empty, or holds one entry.
PagingResponses ==
    {Transport("timeout"), Status(404), Unparseable, Wrapped("list", <<>>, JNum(1), JNum(2))}
    \cup {Wrapped("list", <<e>>, m[1], m[2]) :
              e \in {Contact(1), NoIdDict},
              m \in {<<JNum(1), JNum(2)>>, <<JNum(2), JNum(2)>>, <<JAbsent, JAbsent>>}}

\* The pages of the session specification's server.
SessionResponses ==
    {Transport("timeout"), Status(404), Status(204), Unparseable,
     Wrapped("list", <<>>, JNum(1), JNum(1)),
     Wrapped("list", <<Contact(1), NoIdDict>>, JNum(1), JNum(2)),
     Wrapped("list", <<Contact(2)>>, JAbsent, JNum(2)),
     Wrapped("list", <<Contact(1), Contact(2)>>, JNull, JNum(2)),
     Bare(<<Contact(2), Contact(1)>>)}

\* requests.Response.__bool__ is Response.ok: the status is below 400.
\* make_api_request returns None for a transport failure.
Truthy(r) == r.kind = "http" /\ r.status < 400

(* ------------------------------ error log ------------------------------- *)

\* A log that, once full, keeps its oldest entries.
log_errorKeepingOldest(log, message) ==
    LET l == Append(log, message)
    IN  IF Len(l) > LogLimit THEN SubSeq(l, 1, LogLimit) ELSE l

\* Lines 37-48: the entry is appended and the last 100 entries are kept.
log_error(log, message) ==
    LET l == Append(log, message)
    IN  IF Len(l) > LogLimit THEN SubSeq(l, Len(l) - LogLimit + 1, Len(l)) ELSE l

\* How a call of make_api_request ends: the value it returns (NoResponse
\* for None) and the log, or an exception that leaves it.
ApiResult(response, log, raised) == [response |-> response, log |-> log, raised |-> raised]

\* A make_api_request that calls raise_for_status: an error status is an
\* exception, logged like any other.
make_api_requestRaisingForStatus(log, outcome) ==
    IF outcome.kind = "http" /\ outcome.status < 400 THEN ApiResult(outcome, log, FALSE)
    ELSE IF outcome.kind = "timeout"
    THEN ApiResult(NoResponse, log_error(log, "API request timeout"), FALSE)
    ELSE IF outcome.kind = "connection"
    THEN ApiResult(NoResponse, log_error(log, "API connection error"), FALSE)
    ELSE ApiResult(NoResponse, log_error(log, "API request error"), FALSE)

\* Lines 136-160, on the outcome of the round trip: a completed one returns
\* the response (line 147), a timeout, a connection error and any other
\* exception are logged and None is returned.
make_api_request(log, outcome) ==
    IF outcome.kind = "http" THEN ApiResult(outcome, log, FALSE)
    ELSE IF outcome.kind = "timeout"
    THEN ApiResult(NoResponse, log_error(log, "API request timeout"), FALSE)
    ELSE IF outcome.kind = "connection"
    THEN ApiResult(NoResponse, log_error(log, "API connection error"), FALSE)
    ELSE ApiResult(NoResponse, log_error(log, "API request error"), FALSE)

(* ------------------------------- state ---------------------------------- *)

VARIABLES
    \* st.session_state (lines 18-32)
    base_url, api_username, api_password, authenticated,
    contacts_cache, custom_fields_cache, error_log,
    \* the navigation radio's selection (line 110)
    page_sel,
    \* where the current script run is: "idle" (waiting for the user),
    \* "page" (the sidebar is done, the page function starts), "tags" (the
    \* create page has its field schema), "submit" (it has its form data and
    \* the form was submitted), "fetch" (in the page loop of fetch_contacts)
    pc,
    \* the button the user pressed to start this run, "none" once handled
    event,
    \* script runs the user has started
    runs,
    \* fetch_contacts' parameter max_contacts (0 for None) and locals (lines
    \* 173, 181-182)
    page, all_contacts, max_contacts,
    \* what the last step did, and whether the record cache was present
    \* before it: [name, cached]
    op,
    \* observations of the current run's fetch_contacts call: the page
    \* requests issued, the page number of the last one, the last response
    \* received (before the first page request: the outcome of the run's
    \* connection test), all_contacts as it was when that request was issued, the
    \* valid entries of every batch received (before any truncation), and how
    \* the call ended: [kind |-> "none" | "pending" | "returned" | "raised",
    \* value |-> the returned sequence, hit |-> served from the cache].
    \* served is kept until the next page loop starts.
    reqs, lastReq, resp, prior, served, ret,
    \* the document behind the download link the current run rendered
    \* (lines 162-171): [kind |-> "none" | "contacts" | "n8n" | "fields", doc]
    download,
    \* the creation form of the current run: the tag and list options it
    \* offers, the positions in the field schema of the entries it renders a
    \* widget for, the inputs of a submission, and the payload of the POST
    \* made for it (None: no submission, no POST)
    form,
    \* for each cache that is present, the configuration (base URL, username,
    \* password) its content was fetched with: [contacts, fields]
    origin

vars == <<base_url, api_username, api_password, authenticated, contacts_cache,
          custom_fields_cache, error_log, page_sel, pc, event, runs,
          page, all_contacts, max_contacts, op,
          reqs, lastReq, resp, prior, served, ret, download, form, origin>>

locals == <<page, all_contacts, max_contacts>>
observed == <<reqs, lastReq, resp, prior, served, ret, download, form>>

NoForm == [tags |-> <<>>, lists |-> <<>>, slots |-> <<>>, inputs |-> None, posted |-> None]

NoDownload == [kind |-> "none", doc |-> <<>>, selection |-> <<>>]

Pages == {"View Contacts", "Create Contact", "Custom Fields", "Export Options", "Debug Log"}

Outcome(kind, value, hit) == [kind |-> kind, value |-> value, hit |-> hit]

Did(name) == op' = [name |-> name, cached |-> contacts_cache # None]

\* initialize_session_state, and the radio's first option.
Init ==
    /\ base_url = "https://videmicorp.com"
    /\ api_username = ""
    /\ api_password = ""
    /\ authenticated = FALSE
    /\ contacts_cache = None
    /\ custom_fields_cache = None
    /\ error_log = <<>>
    /\ page_sel = "View Contacts"
    /\ pc = "idle"
    /\ event = "none"
    /\ runs = 0
    /\ page = 1
    /\ all_contacts = <<>>
    /\ max_contacts = 0
    /\ op = [name |-> "start", cached |-> FALSE]
    /\ reqs = 0
    /\ lastReq = 0
    /\ resp = NoResponse
    /\ prior = <<>>
    /\ served = <<>>
    /\ ret = Outcome("none", <<>>, FALSE)
    /\ download = NoDownload
    /\ form = NoForm
    /\ origin = [contacts |-> None, fields |-> None]

check_auth == authenticated

\* Lines 55-57, 116-120: the configuration the requests of a run are made
\* with.
Config == <<base_url, api_username, api_password>>

\* The configuration behind each cache after a step: none for an absent
\* cache, the current one for a cache the step filled (it was absent, or
\* the step cleared it and fetched again), the earlier one otherwise.
Track(refetched) ==
    origin' =
        [contacts |-> IF contacts_cache' = None THEN None
                      ELSE IF contacts_cache = None THEN Some(Config)
                      ELSE origin.contacts,
         fields |-> IF custom_fields_cache' = None THEN None
                    ELSE IF custom_fields_cache = None \/ refetched THEN Some(Config)
                    ELSE origin.fields]

(* --------------------------- fetch_contacts ----------------------------- *)

\* A validation that takes any object, with or without an id.
IsValidAnyObject(contact) == contact.dict

\* Line 229: the entry is an object and its id is not None.
IsValid(contact) == contact.dict /\ contact.id # None

\* A validation loop that gives up the batch at its first invalid entry.
ValidateBatchUntilInvalid(batch, i, all, log) ==
    IF i > Len(batch) THEN [all |-> all, log |-> log]
    ELSE IF \A j \in i..Len(batch) : IsValid(batch[j])
         THEN [all |-> all \o SubSeq(batch, i, Len(batch)), log |-> log]
         ELSE LET k == CHOOSE j \in i..Len(batch) :
                           ~IsValid(batch[j]) /\ \A h \in i..(j - 1) : IsValid(batch[h])
              IN  [all |-> all \o SubSeq(batch, i, k - 1),
                   log |-> log_error(log, "Skipped invalid contact without ID")]

\* Lines 227-233: the entries of the batch from position i on, in order:
\* a valid one is appended to all_contacts, any other one is logged.
RECURSIVE ValidateBatch(_, _, _, _)
ValidateBatch(batch, i, all, log) ==
    IF i > Len(batch) THEN [all |-> all, log |-> log]
    ELSE IF IsValid(batch[i])
         THEN ValidateBatch(batch, i + 1, Append(all, batch[i]), log)
         ELSE ValidateBatch(batch, i + 1, all,
                            log_error(log, "Skipped invalid contact without ID"))

\* Lines 210-221: the batch of a parsed body, as [dtype, items].
contacts_batch(r) ==
    IF r.shape = "wrapped" THEN [dtype |-> r.dtype, items |-> r.items]
    ELSE IF r.shape = "bare" THEN [dtype |-> "list", items |-> r.items]
    ELSE [dtype |-> "list", items |-> <<>>]

\* Lines 212-221: current_page and last_page, with the defaults of .get.
pagination_info(r, pg) ==
    IF r.shape = "wrapped"
    THEN [current_page |-> DictGet(r.cur, JNum(pg)), last_page |-> DictGet(r.last, JNum(1))]
    ELSE [current_page |-> JNum(1), last_page |-> JNum(1)]

\* Line 223: "not contacts_batch" (null, or an empty list).
Falsy(b) == b.dtype = "null" \/ (b.dtype = "list" /\ b.items = <<>>)

\* How an iteration of the page loop ends: "continue", "break", or "raise"
\* (an exception leaves fetch_contacts), with the locals and the log.
Iter(next, pg, all, log) == [next |-> next, page |-> pg, all |-> all, log |-> log]

\* A failure path that asks for the same page again.
OnFailureRetrying(r, pg, all, log) ==
    Iter("continue", pg, all,
         IF Truthy(r) THEN log_error(log, "Failed to fetch contacts on page") ELSE log)

\* A failure path that gives up what the earlier pages accumulated.
OnFailureDiscarding(r, pg, all, log) ==
    Iter("break", pg, <<>>,
         IF Truthy(r) THEN log_error(log, "Failed to fetch contacts on page") ELSE log)

\* Lines 195-200: a request that failed or was not answered 200.  A response
\* with an error status is falsy, so nothing is logged for it here.
OnFailure(r, pg, all, log) ==
    Iter("break", pg, all,
         IF Truthy(r) THEN log_error(log, "Failed to fetch contacts on page") ELSE log)

\* Line 239: the ceiling is set and reached.
CeilingReached(all, mx) == mx # 0 /\ Len(all) >= mx

\* A truncation that keeps the latest records instead of the earliest.
TruncateToLatest(all, mx) == SubSeq(all, Len(all) - mx + 1, Len(all))

\* Line 240.
Truncate(all, mx) == SubSeq(all, 1, mx)

\* The page loop without its safety limit.
LastPageCheckNoLimit(info, pg, all, log) ==
    IF ~Comparable(info.current_page, info.last_page) THEN Iter("raise", pg, all, log)
    ELSE IF GreaterEq(info.current_page, info.last_page) THEN Iter("break", pg, all, log)
    ELSE Iter("continue", pg + 1, all, log)

\* A page loop that takes its next page number from the server's
\* current_page.
LastPageCheckFollowingServer(info, pg, all, log) ==
    IF ~Comparable(info.current_page, info.last_page) THEN Iter("raise", pg, all, log)
    ELSE IF GreaterEq(info.current_page, info.last_page) THEN Iter("break", pg, all, log)
    ELSE LET nxt == IF info.current_page.t = "num" THEN info.current_page.n + 1 ELSE pg + 1
         IN  IF nxt > PageLimit
             THEN Iter("break", nxt, all, log_error(log, "Reached maximum page limit (1000)"))
             ELSE Iter("continue", nxt, all, log)

\* Lines 243-253, reached with the batch accumulated and the ceiling not hit.
LastPageCheck(info, pg, all, log) ==
    IF ~Comparable(info.current_page, info.last_page) THEN Iter("raise", pg, all, log)
    ELSE IF GreaterEq(info.current_page, info.last_page) THEN Iter("break", pg, all, log)
    ELSE IF pg + 1 > PageLimit
         THEN Iter("break", pg + 1, all, log_error(log, "Reached maximum page limit (1000)"))
         ELSE Iter("continue", pg + 1, all, log)

\* Lines 188-253: one iteration of the page loop, on the outcome of the
\* request for page pg.  The exceptions: the for loop over a number (line
\* 228), and >= on values Python does not compare (line 244).
LoopBody(outcome, pg, all, mx, log0) ==
    LET q == make_api_request(log0, outcome)
        r == q.response
        log == q.log
    IN  IF ~Truthy(r) \/ r.status # 200 THEN OnFailure(r, pg, all, log)
        ELSE IF r.shape = "unparseable"
        THEN Iter("break", pg, all, log_error(log, "Failed to parse JSON response"))
        ELSE LET b == contacts_batch(r)
             IN  IF Falsy(b) THEN Iter("break", pg, all, log)
                 ELSE IF b.dtype # "list" THEN Iter("raise", pg, all, log)
                 ELSE LET v == ValidateBatch(b.items, 1, all, log)
                      IN  IF CeilingReached(v.all, mx)
                          THEN Iter("break", pg, Truncate(v.all, mx), v.log)
                          ELSE LastPageCheck(pagination_info(r, pg), pg, v.all, v.log)

\* The entries of a batch that are records: objects with an id.
Records(items) == SelectSeq(items, LAMBDA e : e.dict /\ e.id # None)

\* The batch the loop iterates over, if the response has one.
Iterated(r) ==
    IF Truthy(r) /\ r.status = 200 /\ r.shape \in {"wrapped", "bare"}
       /\ contacts_batch(r).dtype = "list"
    THEN r.items ELSE <<>>

\* A page loop that starts after the first page.
EnterLoopAfterFirst(mx) ==
    /\ pc' = "fetch"
    /\ page' = 2
    /\ all_contacts' = <<>>
    /\ max_contacts' = mx
    /\ served' = <<>>
    /\ ret' = Outcome("pending", <<>>, FALSE)

\* Lines 181-186: a cache miss enters the page loop at page 1.
EnterLoop(mx) ==
    /\ pc' = "fetch"
    /\ page' = 1
    /\ all_contacts' = <<>>
    /\ max_contacts' = mx
    /\ served' = <<>>
    /\ ret' = Outcome("pending", <<>>, FALSE)

\* Lines 178-179: a cache hit returns the cached sequence, whatever the
\* ceiling mx of the call.
ServeCache(mx) ==
    /\ pc' = "idle"
    /\ max_contacts' = mx
    /\ ret' = Outcome("returned", Get(contacts_cache), TRUE)
    /\ UNCHANGED <<page, all_contacts, served>>

\* Lines 175-176: not authenticated.
Denied(mx) ==
    /\ pc' = "idle"
    /\ max_contacts' = mx
    /\ ret' = Outcome("returned", <<>>, FALSE)
    /\ UNCHANGED <<page, all_contacts, served>>

\* A fetch_contacts that never takes the cache.
CacheHitNever(use_cache) == FALSE

\* Line 178.
CacheHit(use_cache) == use_cache /\ contacts_cache # None

\* Lines 173-186: fetch_contacts up to its first page request.
fetch_contacts(use_cache, mx) ==
    /\ IF ~check_auth THEN Denied(mx)
       ELSE IF CacheHit(use_cache) THEN ServeCache(mx)
       ELSE EnterLoop(mx)
    /\ Did("fetch_contacts")
    /\ UNCHANGED <<reqs, lastReq, resp, prior>>

\* Lines 255-260: leaving the loop by break caches all_contacts; an
\* exception leaves the cache as it was.
Cached(s) == IF s.next = "break" THEN Some(s.all) ELSE contacts_cache

\* One iteration of the page loop (lines 188-253) and, when it leaves the
\* loop, the rest of fetch_contacts (lines 255-260).  An exception ends the
\* script run.  The server holds at most MaxRecords records.
FetchPage(r) ==
    /\ pc = "fetch"
    /\ Len(all_contacts) + Len(Records(Iterated(r))) <= MaxRecords
    /\ LET s == LoopBody(r, page, all_contacts, max_contacts, error_log)
       IN  /\ reqs' = reqs + 1
           /\ lastReq' = page
           /\ resp' = r
           /\ prior' = all_contacts
           /\ served' = served \o Records(Iterated(r))
           /\ error_log' = s.log
           /\ all_contacts' = s.all
           /\ page' = s.page
           /\ pc' = IF s.next = "continue" THEN "fetch" ELSE "idle"
           /\ contacts_cache' = Cached(s)
           /\ ret' = IF s.next = "continue" THEN ret
                     ELSE IF s.next = "break" THEN Outcome("returned", s.all, FALSE)
                     ELSE Outcome("raised", <<>>, FALSE)
    /\ Did("page_request")
    /\ UNCHANGED <<base_url, api_username, api_password, authenticated, custom_fields_cache,
                   page_sel, event, runs, max_contacts, download, form>>
    /\ Track(FALSE)

(* ------------------------- fetch_custom_fields -------------------------- *)

\* A field schema entry (lines 617-620): an object with its slug, label,
\* type and options ("" for a slug or label that is absent, null or empty),
\* or something that is not an object (line 614).
Field(slug, label, type, options) ==
    [dict |-> TRUE, slug |-> slug, label |-> label, type |-> type, options |-> options]
NotAField == [dict |-> FALSE, slug |-> "", label |-> "", type |-> "", options |-> <<>>]
FieldLists == {<<>>, <<Field("company", "Company", "text", <<>>)>>}

\* The custom-fields body: {"fields": [...]} ("wrapped") or a bare array.
FieldResponses ==
    {Transport("error"), Status(204), Status(401), Unparseable}
    \cup {Wrapped("list", f, JAbsent, JAbsent) : f \in FieldLists}
    \cup {Bare(f) : f \in FieldLists}

\* What a call of fetch_custom_fields leaves and returns, and whether it
\* made a request.
FieldsResult(cache, log, value, requested) ==
    [cache |-> cache, log |-> log, value |-> value, requested |-> requested]

\* A fetch_custom_fields that looks into the cache before it checks the
\* authentication.
fetch_custom_fieldsCacheFirst(cache, log0, outcome) ==
    IF cache # None THEN FieldsResult(cache, log0, Get(cache), FALSE)
    ELSE IF ~check_auth THEN FieldsResult(cache, log0, <<>>, FALSE)
    ELSE LET q == make_api_request(log0, outcome)
             r == q.response
             log == q.log
         IN  IF Truthy(r) /\ r.status = 200
             THEN IF r.shape = "unparseable"
                  THEN FieldsResult(cache,
                                    log_error(log, "Failed to parse custom fields"),
                                    <<>>, TRUE)
                  ELSE FieldsResult(Some(r.items), log, r.items, TRUE)
             ELSE FieldsResult(cache,
                               IF Truthy(r)
                               THEN log_error(log, "Failed to fetch custom fields")
                               ELSE log,
                               <<>>, TRUE)

\* A fetch_custom_fields that caches the empty result of a failed fetch.
fetch_custom_fieldsCachingFailures(cache, log0, outcome) ==
    IF ~check_auth THEN FieldsResult(cache, log0, <<>>, FALSE)
    ELSE IF cache # None THEN FieldsResult(cache, log0, Get(cache), FALSE)
    ELSE LET q == make_api_request(log0, outcome)
             r == q.response
             log == q.log
         IN  IF Truthy(r) /\ r.status = 200
             THEN IF r.shape = "unparseable"
                  THEN FieldsResult(Some(<<>>),
                                    log_error(log, "Failed to parse custom fields"),
                                    <<>>, TRUE)
                  ELSE FieldsResult(Some(r.items), log, r.items, TRUE)
             ELSE FieldsResult(Some(<<>>),
                               IF Truthy(r)
                               THEN log_error(log, "Failed to fetch custom fields")
                               ELSE log,
                               <<>>, TRUE)

\* Lines 262-286, on the outcome of the request when one is made: the
\* cache, the log and the returned value.
fetch_custom_fields(cache, log0, outcome) ==
    IF ~check_auth THEN FieldsResult(cache, log0, <<>>, FALSE)
    ELSE IF cache # None THEN FieldsResult(cache, log0, Get(cache), FALSE)
    ELSE LET q == make_api_request(log0, outcome)
             r == q.response
             log == q.log
         IN  IF Truthy(r) /\ r.status = 200
             THEN IF r.shape = "unparseable"
                  THEN FieldsResult(cache,
                                    log_error(log, "Failed to parse custom fields"),
                                    <<>>, TRUE)
                  ELSE FieldsResult(Some(r.items), log, r.items, TRUE)
             ELSE FieldsResult(cache,
                               IF Truthy(r)
                               THEN log_error(log, "Failed to fetch custom fields")
                               ELSE log,
                               <<>>, TRUE)

\* The responses a call of fetch_custom_fields may get: none on a hit.
FieldServer(cache) == IF cache = None THEN FieldResponses ELSE {NoResponse}

(* ------------------------ fetch_tags_and_lists -------------------------- *)

TagResponses == {Transport("connection"), Status(404), Unparseable, Bare(<<>>)}

\* Lines 293-313: what one of the two requests adds to the log.
ParseEntities(log0, outcome, message) ==
    LET q == make_api_request(log0, outcome)
        r == q.response
        log == q.log
    IN  IF Truthy(r) /\ r.status = 200 /\ r.shape = "unparseable"
        THEN log_error(log, message) ELSE log

\* Lines 298-313 and 588-606: the entries of the tags (lists) response, and
\* the multiselect's options: the ids of the entries that are objects.
Entities(r) ==
    IF Truthy(r) /\ r.status = 200 /\ r.shape \in {"wrapped", "bare"} THEN r.items ELSE <<>>

Options(entities) ==
    LET objects == SelectSeq(entities, LAMBDA e : e.dict)
    IN  [i \in DOMAIN objects |-> objects[i].id]

\* Lines 288-315: without authentication no request and two empty lists;
\* otherwise the two requests, the log and the entries of each answer.
fetch_tags_and_lists(log, rt, rl) ==
    IF ~check_auth
    THEN [log |-> log, tags |-> <<>>, lists |-> <<>>, requested |-> FALSE]
    ELSE [log |-> ParseEntities(ParseEntities(log, rt, "Failed to parse tags"),
                                rl, "Failed to parse lists"),
          tags |-> Entities(rt), lists |-> Entities(rl), requested |-> TRUE]

(* ------------------------------- sidebar -------------------------------- *)

\* The username and password the user may have typed.
Credentials == {<<"", "">>, <<"user", "">>, <<"user", "secret">>}

\* The connection test answers with a status or fails in transport.
TestResponses ==
    {Transport(k) : k \in TransportKinds} \cup {Status(200), Status(204), Status(401)}

\* A connection test that takes every success status for a connection.
TestConnectionTrustingSuccess(u, p, r) ==
    IF u = "" \/ p = ""
    THEN /\ UNCHANGED <<authenticated, contacts_cache, custom_fields_cache, error_log>>
         /\ Did("test_skipped")
    ELSE IF Truthy(r)
    THEN /\ authenticated' = TRUE
         /\ contacts_cache' = None
         /\ custom_fields_cache' = None
         /\ UNCHANGED error_log
         /\ Did("test_ok")
    ELSE /\ authenticated' = FALSE
         /\ UNCHANGED <<contacts_cache, custom_fields_cache>>
         /\ error_log' =
                log_error(error_log,
                    IF r.kind = "http" THEN "Connection failed with status code"
                    ELSE IF r.kind = "timeout" THEN "Connection timeout"
                    ELSE IF r.kind = "connection" THEN "Connection error"
                    ELSE "Authentication error")
         /\ Did("test_failed")

\* A connection test that clears the record cache whenever it is made.
TestConnectionClearing(u, p, r) ==
    IF u = "" \/ p = ""
    THEN /\ UNCHANGED <<authenticated, contacts_cache, custom_fields_cache, error_log>>
         /\ Did("test_skipped")
    ELSE /\ authenticated' = (r.kind = "http" /\ r.status = 200)
         /\ contacts_cache' = None
         /\ custom_fields_cache' = None
         /\ UNCHANGED error_log
         /\ Did(IF r.kind = "http" /\ r.status = 200 THEN "test_ok" ELSE "test_failed")

\* Lines 60-100: the Test Connection button, with the credentials u, p.
TestConnection(u, p, r) ==
    IF u = "" \/ p = ""
    THEN /\ UNCHANGED <<authenticated, contacts_cache, custom_fields_cache, error_log>>
         /\ Did("test_skipped")
    ELSE IF r.kind = "http" /\ r.status = 200
    THEN /\ authenticated' = TRUE
         /\ contacts_cache' = None
         /\ custom_fields_cache' = None
         /\ UNCHANGED error_log
         /\ Did("test_ok")
    ELSE /\ authenticated' = FALSE
         /\ UNCHANGED <<contacts_cache, custom_fields_cache>>
         /\ error_log' =
                log_error(error_log,
                    IF r.kind = "http" THEN "Connection failed with status code"
                    ELSE IF r.kind = "timeout" THEN "Connection timeout"
                    ELSE IF r.kind = "connection" THEN "Connection error"
                    ELSE "Authentication error")
         /\ Did("test_failed")

\* The buttons of the pages; a button can be pressed when the last run
\* rendered it.
Buttons ==
    {"none", "refresh", "submit", "refresh_fields", "export_json", "export_n8n",
     "export_fields", "clear_log"}

Rendered(b) ==
    CASE b = "none" -> TRUE
      [] b = "refresh" -> page_sel = "View Contacts" /\ authenticated
      [] b = "submit" -> page_sel = "Create Contact" /\ authenticated
      [] b = "refresh_fields" -> page_sel = "Custom Fields" /\ authenticated
      [] b \in {"export_json", "export_n8n", "export_fields"} ->
            /\ page_sel = "Export Options" /\ authenticated
            /\ contacts_cache # None /\ Get(contacts_cache) # <<>>
      [] b = "clear_log" -> page_sel = "Debug Log"

\* The locals and the observations are those of the current run; tested is
\* the outcome of the run's connection test (NoResponse: no request).
NewRun(tested) ==
    /\ page' = 1
    /\ all_contacts' = <<>>
    /\ max_contacts' = 0
    /\ reqs' = 0
    /\ lastReq' = 0
    /\ resp' = tested
    /\ prior' = <<>>
    /\ ret' = Outcome("none", <<>>, FALSE)
    /\ download' = NoDownload
    /\ form' = NoForm
    /\ UNCHANGED served

\* A script run starts with the Test Connection button pressed: lines 55-57
\* take the inputs' values, lines 60-100 test the connection.
TestRun(url, u, p, r) ==
    /\ pc = "idle"
    /\ runs < MaxRuns
    /\ runs' = runs + 1
    /\ base_url' = url
    /\ api_username' = u
    /\ api_password' = p
    /\ TestConnection(u, p, r)
    /\ event' = "none"
    /\ pc' = "page"
    /\ NewRun(IF u = "" \/ p = "" THEN NoResponse ELSE r)
    /\ UNCHANGED page_sel
    /\ Track(FALSE)

\* A script run starts with the radio on page t and button b pressed (none:
\* another widget changed).
UserRun(url, u, p, t, b) ==
    /\ pc = "idle"
    /\ runs < MaxRuns
    /\ b # "none" => t = page_sel /\ Rendered(b)
    /\ runs' = runs + 1
    /\ base_url' = url
    /\ api_username' = u
    /\ api_password' = p
    /\ page_sel' = t
    /\ event' = b
    /\ pc' = "page"
    /\ NewRun(NoResponse)
    /\ Did("run")
    /\ UNCHANGED <<authenticated, contacts_cache, custom_fields_cache, error_log>>
    /\ Track(FALSE)

(* -------------------------------- pages --------------------------------- *)

\* The values of "Max contacts to load" (line 371).
MaxContactsInputs == 1..MaxInput

\* A page function that returns at once.
Return(name) ==
    /\ pc' = "idle"
    /\ event' = "none"
    /\ Did(name)
    /\ UNCHANGED <<locals, observed>>

\* Lines 366-368: the Refresh button clears the record cache and reruns the
\* script.
Refresh ==
    /\ contacts_cache' = None
    /\ event' = "none"
    /\ pc' = "page"
    /\ Did("refresh")
    /\ UNCHANGED <<locals, observed>>

\* Lines 357-376: without authentication nothing; the Refresh button;
\* otherwise fetch_contacts with the ceiling m.
view_contacts_page(m) ==
    /\ pc = "page"
    /\ page_sel = "View Contacts"
    /\ IF ~check_auth THEN Return("not_authenticated") /\ UNCHANGED contacts_cache
       ELSE IF event = "refresh" THEN Refresh
       ELSE fetch_contacts(TRUE, m) /\ UNCHANGED <<contacts_cache, event, download, form>>
    /\ UNCHANGED <<base_url, api_username, api_password, authenticated, custom_fields_cache,
                   error_log, page_sel, runs>>
    /\ Track(FALSE)

\* Lines 128-134: safe_get turns the value into its string form.
Str(v) == [str |-> v]

safe_get(contact, key) == IF key = "id" THEN Str(Get(contact.id)) ELSE Str("")

\* Lines 324-341: the id of the node at index i, and the node of a contact.
NodeId(i) == <<"contact_", i>>

Node(i, contact) == [id |-> NodeId(i), value |-> safe_get(contact, "id")]

\* Lines 343-347: connections[prev_node_id] = ... node_id.
Put(f, k, v) == [x \in DOMAIN f \cup {k} |-> IF x = k THEN v ELSE f[x]]

\* A conversion that connects every node to the first one.
RECURSIVE ConvertLoopFromFirst(_, _, _, _)
ConvertLoopFromFirst(contacts, i, nodes, connections) ==
    IF i >= Len(contacts) THEN [nodes |-> nodes, connections |-> connections]
    ELSE ConvertLoopFromFirst(contacts, i + 1,
                     Append(nodes, Node(i, contacts[i + 1])),
                     IF i > 0 THEN Put(connections, NodeId(0), NodeId(i))
                     ELSE connections)

\* Lines 324-347: the loop of convert_to_n8n from index i on.
RECURSIVE ConvertLoop(_, _, _, _)
ConvertLoop(contacts, i, nodes, connections) ==
    IF i >= Len(contacts) THEN [nodes |-> nodes, connections |-> connections]
    ELSE ConvertLoop(contacts, i + 1,
                     Append(nodes, Node(i, contacts[i + 1])),
                     IF i > 0 THEN Put(connections, NodeId(i - 1), NodeId(i))
                     ELSE connections)

\* Lines 317-354.
convert_to_n8n(contacts) == ConvertLoop(contacts, 0, <<>>, <<>>)

\* Lines 162-171: json.dumps of the records, as the objects it writes.
Json(contacts) == [i \in DOMAIN contacts |-> [id |-> Get(contacts[i].id)]]

Download(kind, doc, selection) == [kind |-> kind, doc |-> doc, selection |-> selection]

\* Lines 794-809: the options of the multiselect are the ids of the
\* contacts; a selection is a sequence of distinct options, in the order
\* the user picked them.
Selections(contacts) ==
    LET ids == {Get(contacts[i].id) : i \in DOMAIN contacts}
    IN  {<<a>> : a \in ids} \cup {<<p[1], p[2]>> : p \in {q \in ids \X ids : q[1] # q[2]}}

\* Line 816: the contacts whose id is among the selected ones.
selected_contacts(contacts, selection) ==
    SelectSeq(contacts,
              LAMBDA c : \E k \in DOMAIN selection : Get(c.id) = selection[k])

\* Lines 761-847: fetch_contacts without a ceiling; with contacts, the
\* button pressed (it was rendered by a run that had contacts, so this
\* call is served from the cache) produces its download.
export_options_page(r, selection) ==
    /\ pc = "page"
    /\ page_sel = "Export Options"
    /\ IF ~check_auth
       THEN Return("not_authenticated") /\ UNCHANGED <<custom_fields_cache, error_log>>
       ELSE /\ fetch_contacts(TRUE, 0)
            /\ event' = "none"
            /\ IF CacheHit(TRUE) /\ Get(contacts_cache) # <<>> /\ event = "export_fields"
               THEN LET f == fetch_custom_fields(custom_fields_cache, error_log, r)
                    IN  /\ custom_fields_cache' = f.cache
                        /\ error_log' = f.log
                        /\ download' = IF f.value # <<>>
                                       THEN Download("fields", f.value, <<>>)
                                       ELSE NoDownload
               ELSE /\ UNCHANGED <<custom_fields_cache, error_log>>
                    /\ download' =
                         IF ~(CacheHit(TRUE) /\ Get(contacts_cache) # <<>>) THEN NoDownload
                         ELSE IF event = "export_json"
                         THEN Download("contacts", Json(Get(contacts_cache)), <<>>)
                         ELSE IF event = "export_n8n" /\ selection # <<>>
                         THEN Download("n8n",
                                  convert_to_n8n(
                                      selected_contacts(Get(contacts_cache), selection)),
                                  selection)
                         ELSE NoDownload
    /\ UNCHANGED <<base_url, api_username, api_password, authenticated, contacts_cache,
                   page_sel, runs, form>>
    /\ Track(FALSE)

\* A custom-fields page whose refresh button clears the record cache too.
custom_fields_pageClearingBoth(r) ==
    /\ pc = "page"
    /\ page_sel = "Custom Fields"
    /\ IF ~check_auth
       THEN /\ Return("not_authenticated")
            /\ UNCHANGED <<custom_fields_cache, error_log, contacts_cache>>
       ELSE LET f == fetch_custom_fields(
                        IF event = "refresh_fields" THEN None ELSE custom_fields_cache,
                        error_log, r)
            IN  /\ custom_fields_cache' = f.cache
                /\ error_log' = f.log
                /\ contacts_cache' =
                       IF event = "refresh_fields" THEN None ELSE contacts_cache
                /\ Return("custom_fields")
    /\ UNCHANGED <<base_url, api_username, api_password, authenticated, page_sel, runs>>
    /\ Track(event = "refresh_fields")

\* Lines 708-720: the refresh button clears the field cache, then
\* fetch_custom_fields.
custom_fields_page(r) ==
    /\ pc = "page"
    /\ page_sel = "Custom Fields"
    /\ IF ~check_auth
       THEN Return("not_authenticated") /\ UNCHANGED <<custom_fields_cache, error_log>>
       ELSE LET f == fetch_custom_fields(
                        IF event = "refresh_fields" THEN None ELSE custom_fields_cache,
                        error_log, r)
            IN  /\ custom_fields_cache' = f.cache
                /\ error_log' = f.log
                /\ Return("custom_fields")
    /\ UNCHANGED <<base_url, api_username, api_password, authenticated, contacts_cache,
                   page_sel, runs>>
    /\ Track(event = "refresh_fields")

\* Lines 849-855.
debug_log_page ==
    /\ pc = "page"
    /\ page_sel = "Debug Log"
    /\ error_log' = IF event = "clear_log" THEN <<>> ELSE error_log
    /\ Return("debug_log")
    /\ UNCHANGED <<base_url, api_username, api_password, authenticated, contacts_cache,
                   custom_fields_cache, page_sel, runs>>
    /\ Track(FALSE)

\* Lines 545-554: the create page loads the field schema ...
create_contact_page(r) ==
    /\ pc = "page"
    /\ page_sel = "Create Contact"
    /\ IF ~check_auth
       THEN Return("not_authenticated") /\ UNCHANGED <<custom_fields_cache, error_log>>
       ELSE LET f == fetch_custom_fields(custom_fields_cache, error_log, r)
            IN  /\ custom_fields_cache' = f.cache
                /\ error_log' = f.log
                /\ pc' = "tags"
                /\ Did("form_fields")
                /\ UNCHANGED <<event, locals, observed>>
    /\ UNCHANGED <<base_url, api_username, api_password, authenticated, contacts_cache,
                   page_sel, runs>>
    /\ Track(FALSE)

\* The custom fields the form of this run renders: what fetch_custom_fields
\* returned, which is the cache's content or nothing.
FormFields == IF custom_fields_cache # None THEN Get(custom_fields_cache) ELSE <<>>

\* A form that asks only for the slug of an entry.
IsRenderedWithoutLabel(field) ==
    /\ field.dict
    /\ field.slug # ""
    /\ \/ field.type = "text"
       \/ field.type \in {"select-one", "radio", "checkbox"} /\ field.options # <<>>

\* Lines 611-633: the custom fields the form renders a widget for, and the
\* keys of custom_values.
IsRendered(field) ==
    /\ field.dict
    /\ field.slug # "" /\ field.label # ""
    /\ \/ field.type = "text"
       \/ field.type \in {"select-one", "radio", "checkbox"} /\ field.options # <<>>

CustomKeys(fields) == {fields[i].slug : i \in {j \in DOMAIN fields : IsRendered(fields[j])}}

\* Lines 613-633: the positions of the entries a widget is rendered for, in
\* schema order.
RECURSIVE Slots(_, _)
Slots(fields, i) ==
    IF i > Len(fields) THEN <<>>
    ELSE (IF IsRendered(fields[i]) THEN <<i>> ELSE <<>>) \o Slots(fields, i + 1)

\* ... and the tags and lists (line 554), then renders the form.
load_tags_and_lists(rt, rl) ==
    /\ pc = "tags"
    /\ LET f == fetch_tags_and_lists(error_log, rt, rl)
       IN  /\ error_log' = f.log
           /\ form' = [form EXCEPT !.tags = Options(f.tags), !.lists = Options(f.lists),
                                   !.slots = Slots(FormFields, 1)]
    /\ pc' = IF event = "submit" THEN "submit" ELSE "idle"
    /\ Did("form_data")
    /\ UNCHANGED <<base_url, api_username, api_password, authenticated, contacts_cache,
                   custom_fields_cache, page_sel, event, runs, locals,
                   reqs, lastReq, resp, prior, served, ret, download>>
    /\ Track(FALSE)

\* An email input, as its characters.
Emails == {<<>>, <<" ">>, <<" ", "a", " ">>}

\* str.strip() on the characters of s.
RECURSIVE LStrip(_)
LStrip(s) == IF s # <<>> /\ Head(s) = " " THEN LStrip(Tail(s)) ELSE s
RECURSIVE RStrip(_)
RStrip(s) == IF s # <<>> /\ s[Len(s)] = " " THEN RStrip(SubSeq(s, 1, Len(s) - 1)) ELSE s
\* A strip that removes nothing.
StripNothing(s) == s

Strip(s) == RStrip(LStrip(s))

\* The answers to POST subscribers: the created record's echo parses or not.
PostResponses ==
    {Transport("timeout"), Status(200), Status(201), Status(204), Status(404),
     Response("http", 201, "unparseable", "list", <<>>, JAbsent, JAbsent)}

\* Lines 688-706: the POST and what follows its answer.
create_contact(outcome) ==
    LET q == make_api_request(error_log, outcome)
        r == q.response
        log == q.log
    IN  IF Truthy(r) /\ r.status \in {200, 201}
        THEN /\ contacts_cache' = None
             /\ error_log' =
                    IF r.shape = "unparseable"
                    THEN log_error(log, "Error displaying created contact details")
                    ELSE log
             /\ Did("create_ok")
        ELSE /\ UNCHANGED contacts_cache
             /\ error_log' =
                    IF Truthy(r) THEN log_error(log, "Failed to create contact") ELSE log
             /\ Did("create_failed")

\* Lines 560-576: the text inputs other than the email, in the order the
\* payload takes them (lines 651-670).
ScalarKeys ==
    <<"first_name", "last_name", "prefix", "phone", "address_line_1",
      "address_line_2", "city", "state", "postal_code", "country">>

ScalarKeySet == {ScalarKeys[i] : i \in DOMAIN ScalarKeys}

\* The inputs of the form at submission.
Inputs(email, status, scalars, dob, tags, lists, custom) ==
    [email |-> email, status |-> status, scalars |-> scalars, dob |-> dob,
     tags |-> tags, lists |-> lists, custom |-> custom]

\* The field whose widget gives custom_values[key] its value: the last one
\* rendered with that slug.
WidgetOf(fields, key) ==
    LET at == {j \in DOMAIN fields : IsRendered(fields[j]) /\ fields[j].slug = key}
    IN  fields[CHOOSE j \in at : \A k \in at : k <= j]

\* Line 673: strftime("%Y-%m-%d").
DateText(d) == <<"%Y-%m-%d", d>>

\* A filter that keeps every custom value.
UnfilteredCustomValues(custom) == custom

\* Line 681: the custom values that are truthy.
filtered_custom_values(custom) ==
    LET kept == {k \in DOMAIN custom : custom[k] # <<>>}
    IN  [k \in kept |-> custom[k]]

\* Lines 651-670: the text inputs from position i on.
RECURSIVE AddScalars(_, _, _)
AddScalars(data, scalars, i) ==
    IF i > Len(ScalarKeys) THEN data
    ELSE LET key == ScalarKeys[i]
         IN  AddScalars(IF Strip(scalars[key]) # <<>>
                        THEN Put(data, key, Strip(scalars[key]))
                        ELSE data,
                        scalars, i + 1)

\* Lines 644-684: contact_data, a mapping from keys to values.
contact_data(in) ==
    LET base == Put(Put(<<>>, "email", Strip(in.email)), "status", in.status)
        text == AddScalars(base, in.scalars, 1)
        born == IF in.dob # None THEN Put(text, "date_of_birth", DateText(Get(in.dob)))
                ELSE text
        tagged == IF in.tags # <<>> THEN Put(born, "tags", in.tags) ELSE born
        listed == IF in.lists # <<>> THEN Put(tagged, "lists", in.lists) ELSE tagged
        custom == filtered_custom_values(in.custom)
    IN  IF DOMAIN custom # {} THEN Put(listed, "custom_values", custom) ELSE listed

\* Lines 638-706: the submitted form.  An empty email is rejected before
\* any request.
submit_form(in, r) ==
    /\ pc = "submit"
    /\ IF in.email = <<>> \/ Strip(in.email) = <<>>
       THEN /\ UNCHANGED <<contacts_cache, error_log>>
            /\ form' = [form EXCEPT !.inputs = Some(in)]
            /\ Did("create_rejected")
       ELSE /\ create_contact(r)
            /\ form' = [form EXCEPT !.inputs = Some(in),
                                    !.posted = Some(contact_data(in))]
    /\ event' = "none"
    /\ pc' = "idle"
    /\ UNCHANGED <<base_url, api_username, api_password, authenticated, custom_fields_cache,
                   page_sel, runs, locals,
                   reqs, lastReq, resp, prior, served, ret, download>>
    /\ Track(FALSE)

(* ---------------------------- specifications ---------------------------- *)

\* The widgets' values when the user has touched none of them: a radio
\* has its first option, everything else is empty.
Untouched(fields) ==
    [k \in CustomKeys(fields) |->
        IF WidgetOf(fields, k).type = "radio" THEN WidgetOf(fields, k).options[1] ELSE <<>>]

\* A submission with nothing filled in but the email.
EmailOnly(email) ==
    Inputs(email, "subscribed", [k \in ScalarKeySet |-> <<>>], None, <<>>, <<>>,
           Untouched(FormFields))


\* The response the Export Custom Fields button's call gets.
ExportServer ==
    IF event = "export_fields" THEN FieldServer(custom_fields_cache) ELSE {NoResponse}

\* The selection the Export Selected Contacts button finds.
ExportSelections ==
    IF event = "export_n8n" THEN Selections(Get(contacts_cache)) ELSE {<<>>}

\* The session specification's bound on the error log's growth.
Quota == Len(error_log') > Len(error_log) => Len(error_log) < MaxLogged

\* The session: every user event and every step of a run, against a server
\* of a few pages.
Next ==
    \/ \E c \in Credentials, r \in TestResponses : TestRun(base_url, c[1], c[2], r) /\ Quota
    \/ \E t \in Pages, b \in Buttons : UserRun(base_url, api_username, api_password, t, b)
    \/ \E m \in MaxContactsInputs : view_contacts_page(m)
    \/ \E r \in ExportServer, c \in ExportSelections : export_options_page(r, c) /\ Quota
    \/ \E r \in FieldServer(IF event = "refresh_fields" THEN None ELSE custom_fields_cache) :
           custom_fields_page(r) /\ Quota
    \/ debug_log_page
    \/ \E r \in FieldServer(custom_fields_cache) : create_contact_page(r) /\ Quota
    \/ \E rt \in TagResponses, rl \in TagResponses : load_tags_and_lists(rt, rl) /\ Quota
    \/ \E e \in Emails, r \in PostResponses : submit_form(EmailOnly(e), r) /\ Quota
    \/ \E r \in SessionResponses : FetchPage(r) /\ Quota

Spec == Init /\ [][Next]_vars

\* The user arrives on the View Contacts or the Export Options page and
\* types the credentials (run 1), then tests the connection, which succeeds
\* (run 2): the sidebar, then the page function and its fetch_contacts call.
Arrive ==
    /\ runs = 0
    /\ \E t \in {"View Contacts", "Export Options"} : UserRun(base_url, "user", "secret", t, "none")

Connect == runs = 1 /\ TestRun(base_url, api_username, api_password, Status(200))

\* A later run on the same page with nothing pressed: fetch_contacts again.
Revisit == runs = 2 /\ UserRun(base_url, api_username, api_password, page_sel, "none")

\* One fetch: any response on page 1, a page of at most one entry on the
\* next MaxVaried pages, then a server that stops.
FetchServer(pg) ==
    IF pg = 1 THEN PageResponses
    ELSE IF pg <= 1 + MaxVaried THEN TailResponses
    ELSE {t \in TailResponses : t.cur = JNum(2) \/ t.items = <<>>}

NextFetch ==
    \/ Arrive
    \/ Connect
    \/ Revisit
    \/ \E m \in MaxContactsInputs : view_contacts_page(m)
    \/ export_options_page(NoResponse, <<>>)
    \/ \E r \in FetchServer(page) : FetchPage(r)

SpecFetch == Init /\ [][NextFetch]_vars

\* The texts typed into the form: nothing, whitespace, and a text with
\* whitespace before, inside and after it.
Texts == {<<>>, <<" ">>, <<" ", "a", " ", "b", " ">>}

\* The schemas the custom-fields endpoint serves to the form: the four
\* widget types, and entries no widget is rendered for.
FormFieldLists ==
    {<<>>,
     <<Field("company", "Company", "text", <<>>),
       Field("tier", "Tier", "select-one", <<<<"g">>, <<"s">>>>),
       Field("news", "News", "checkbox", <<<<"y">>>>)>>,
     <<Field("plan", "Plan", "radio", <<<<"m">>, <<"y">>>>),
       Field("", "No slug", "text", <<>>),
       Field("size", "Size", "select-one", <<>>),
       Field("kind", "Kind", "unknown", <<>>)>>,
     <<Field("note", "", "text", <<>>),
       NotAField,
       Field("company", "", "text", <<>>),
       Field("company", "Company", "text", <<>>)>>}

FormFieldServer ==
    IF custom_fields_cache # None THEN {NoResponse}
    ELSE {Status(404)} \cup {Wrapped("list", f, JAbsent, JAbsent) : f \in FormFieldLists}

FormTagResponses ==
    {Status(404), Bare(<<Contact(1), NotDict>>), Wrapped("list", <<Contact(2)>>, JAbsent, JAbsent)}

\* The values a multiselect over the options can have.
Picks(options) ==
    {<<>>, options} \cup {<<options[i]>> : i \in DOMAIN options}

\* Lines 623-633: the values the widget of a field can have.
WidgetValues(field) ==
    CASE field.type = "text" -> Texts
      [] field.type = "select-one" ->
            {<<>>} \cup {field.options[i] : i \in DOMAIN field.options}
      [] field.type = "radio" -> {field.options[i] : i \in DOMAIN field.options}
      [] field.type = "checkbox" -> Picks(field.options)

\* The custom_values the widgets of the keys can give.
RECURSIVE WidgetInputs(_, _)
WidgetInputs(fields, keys) ==
    IF keys = {} THEN {<<>>}
    ELSE LET key == CHOOSE k \in keys : TRUE
         IN  {Put(c, key, v) : c \in WidgetInputs(fields, keys \ {key}),
                               v \in WidgetValues(WidgetOf(fields, key))}

CustomInputs(fields) == WidgetInputs(fields, CustomKeys(fields))

\* The text inputs with at most one of them filled in.
ScalarInputs ==
    {[k \in ScalarKeySet |-> IF k = filled THEN t ELSE <<>>] :
        filled \in ScalarKeySet, t \in Texts}

\* The submissions made of the rendered form: any email with nothing else
\* touched; any status, date of birth and text inputs; any tags, lists and
\* custom values next to a phone number.
FormInputs ==
    LET email == <<" ", "a", " ", "b", " ">>
        empty == [k \in ScalarKeySet |-> <<>>]
        phone == [empty EXCEPT !["phone"] = <<"a", " ">>]
    IN  {EmailOnly(e) : e \in Texts}
        \cup {Inputs(email, st, sc, d, <<>>, <<>>, Untouched(FormFields)) :
                  st \in {"subscribed", "pending"}, sc \in ScalarInputs,
                  d \in {None, Some(1)}}
        \cup {Inputs(email, "subscribed", phone, None, t, l, c) :
                  t \in Picks(form.tags), l \in Picks(form.lists),
                  c \in CustomInputs(FormFields)}

\* The creation form: the user opens the Create Contact page, connects,
\* and submits the form.
Open == runs = 0 /\ UserRun(base_url, "user", "secret", "Create Contact", "none")

Submit == runs = 2 /\ UserRun(base_url, api_username, api_password, page_sel, "submit")

NextForm ==
    \/ Open
    \/ Connect
    \/ Submit
    \/ \E r \in FormFieldServer : create_contact_page(r)
    \/ \E rt \in FormTagResponses, rl \in FormTagResponses : load_tags_and_lists(rt, rl)
    \/ \E in \in FormInputs, r \in {Status(201), Transport("timeout")} : submit_form(in, r)

SpecForm == Init /\ [][NextForm]_vars

\* The exports: the user opens the Export Options page, connects, the page
\* loads the contacts without a ceiling, and the user presses an export
\* button.
OpenExport == runs = 0 /\ UserRun(base_url, "user", "secret", "Export Options", "none")

Press ==
    /\ runs = 2
    /\ \E b \in {"none", "export_json", "export_n8n"} :
           UserRun(base_url, api_username, api_password, page_sel, b)

NextExport ==
    \/ OpenExport
    \/ Connect
    \/ Press
    \/ \E c \in ExportSelections : export_options_page(NoResponse, c)
    \/ \E r \in FetchServer(page) : FetchPage(r)

SpecExport == Init /\ [][NextExport]_vars

\* The API client alone: make_api_request called with a method, the round
\* trip ending in any outcome.  reqs counts the calls, resp is the outcome
\* of the last round trip and ret what the call returned: the response, or
\* None.
Methods == {"GET", "POST", "PUT"}

RequestOutcomes ==
    {Transport(k) : k \in TransportKinds} \cup {Status(st) : st \in Statuses}
    \cup {Unparseable, Bare(<<Contact(1)>>)}

\* Lines 140-147: a method other than GET and POST raises ValueError
\* inside the try block, before any round trip.
Request(method, r) ==
    /\ pc = "idle"
    /\ reqs < MaxCalls
    /\ LET outcome == IF method \in {"GET", "POST"} THEN r ELSE Transport("error")
           q == make_api_request(error_log, outcome)
       IN  /\ reqs' = reqs + 1
           /\ resp' = outcome
           /\ error_log' = q.log
           /\ ret' = Outcome(IF q.raised THEN "raised" ELSE "returned",
                             IF q.response = NoResponse THEN None ELSE Some(q.response),
                             FALSE)
    /\ Did("make_api_request")
    /\ UNCHANGED <<base_url, api_username, api_password, authenticated, contacts_cache,
                   custom_fields_cache, page_sel, pc, event, runs, locals,
                   lastReq, prior, served, download, form>>
    /\ Track(FALSE)

NextRequest == \E method \in Methods, r \in RequestOutcomes : Request(method, r)

SpecRequest == Init /\ [][NextRequest]_vars

\* The fetch functions alone: connection tests, the refresh button of the
\* Custom Fields page (line 716) and calls of fetch_contacts,
\* fetch_custom_fields and fetch_tags_and_lists, authenticated or not.
\* reqs counts the requests made, resp is the outcome of the last step's
\* request (NoResponse when it made none) and ret what the call returned.
Test(c, r) ==
    /\ pc = "idle"
    /\ reqs < MaxCalls
    /\ reqs' = IF c[1] = "" \/ c[2] = "" THEN reqs ELSE reqs + 1
    /\ api_username' = c[1]
    /\ api_password' = c[2]
    /\ TestConnection(c[1], c[2], r)
    /\ resp' = IF c[1] = "" \/ c[2] = "" THEN NoResponse ELSE r
    /\ UNCHANGED <<base_url, page_sel, pc, event, runs, locals,
                   lastReq, prior, served, ret, download, form>>
    /\ Track(FALSE)

Invalidate ==
    /\ pc = "idle"
    /\ check_auth
    /\ custom_fields_cache' = None
    /\ Did("refresh_fields")
    /\ UNCHANGED <<base_url, api_username, api_password, authenticated, contacts_cache,
                   error_log, page_sel, pc, event, runs, locals,
                   reqs, lastReq, resp, prior, served, ret, download, form>>
    /\ Track(FALSE)

FieldsCall(r) ==
    /\ pc = "idle"
    /\ LET f == fetch_custom_fields(custom_fields_cache, error_log, r)
       IN  /\ f.requested => reqs < MaxCalls
           /\ reqs' = IF f.requested THEN reqs + 1 ELSE reqs
           /\ resp' = IF f.requested THEN r ELSE NoResponse
           /\ custom_fields_cache' = f.cache
           /\ error_log' = f.log
           /\ ret' = Outcome("returned", f.value, ~f.requested /\ check_auth)
    /\ Did("fetch_custom_fields")
    /\ UNCHANGED <<base_url, api_username, api_password, authenticated, contacts_cache,
                   page_sel, pc, event, runs, locals,
                   lastReq, prior, served, download, form>>
    /\ Track(FALSE)

TagsCall(rt, rl) ==
    /\ pc = "idle"
    /\ LET f == fetch_tags_and_lists(error_log, rt, rl)
       IN  /\ f.requested => reqs + 1 < MaxCalls
           /\ reqs' = IF f.requested THEN reqs + 2 ELSE reqs
           /\ resp' = IF f.requested THEN rl ELSE NoResponse
           /\ error_log' = f.log
           /\ ret' = Outcome("returned", f.tags \o f.lists, FALSE)
    /\ Did("fetch_tags_and_lists")
    /\ UNCHANGED <<base_url, api_username, api_password, authenticated, contacts_cache,
                   custom_fields_cache, page_sel, pc, event, runs, locals,
                   lastReq, prior, served, download, form>>
    /\ Track(FALSE)

ContactsCall(m) ==
    /\ pc = "idle"
    /\ check_auth /\ ~CacheHit(TRUE) => reqs < MaxCalls
    /\ fetch_contacts(TRUE, m)
    /\ UNCHANGED <<base_url, api_username, api_password, authenticated, contacts_cache,
                   custom_fields_cache, error_log, page_sel, event, runs,
                   download, form>>
    /\ Track(FALSE)

CallPages == {Status(404), Bare(<<Contact(1), Contact(2)>>)}

NextCalls ==
    \/ \E c \in Credentials, r \in TestResponses : Test(c, r)
    \/ Invalidate
    \/ \E r \in FieldResponses : FieldsCall(r)
    \/ \E rt \in TagResponses, rl \in TagResponses : TagsCall(rt, rl)
    \/ \E m \in {0} \cup MaxContactsInputs : ContactsCall(m)
    \/ \E r \in CallPages : FetchPage(r)

SpecCalls == Init /\ [][NextCalls]_vars

\* The configuration: the user types a base URL and credentials into the
\* sidebar (lines 55-57) on the View Contacts or the Custom Fields page,
\* tests the connection or not, and the page fetches its collection.
BaseUrls == {"https://videmicorp.com", "https://crm.example.org"}

Reconfigure ==
    \E url \in BaseUrls, c \in {<<"user", "secret">>, <<"other", "secret">>},
       t \in {"View Contacts", "Custom Fields"} :
        UserRun(url, c[1], c[2], t, "none")

Retest == \E r \in {Status(200), Status(401)} : TestRun(base_url, api_username, api_password, r)

ConfigPages ==
    {Status(404), Bare(<<Contact(1)>>), Wrapped("list", <<Contact(2)>>, JNum(1), JNum(2))}

NextConfig ==
    \/ Reconfigure
    \/ Retest
    \/ \E m \in MaxContactsInputs : view_contacts_page(m)
    \/ \E r \in FieldServer(custom_fields_cache) : custom_fields_page(r)
    \/ \E r \in ConfigPages : FetchPage(r)

SpecConfig == Init /\ [][NextConfig]_vars

\* One fetch against a server whose pages may go on for ever.
NextPaging ==
    \/ Arrive
    \/ Connect
    \/ \E m \in MaxContactsInputs : view_contacts_page(m)
    \/ export_options_page(NoResponse, <<>>)
    \/ \E r \in PagingResponses : FetchPage(r)

SpecPaging == Init /\ [][NextPaging]_vars

(* -------------------------------- claims -------------------------------- *)

\* The response is a parsed page whose metadata reports current_page >=
\* last_page.
ReportsLastPage(r) ==
    /\ Truthy(r) /\ r.status = 200 /\ r.shape = "wrapped"
    /\ r.cur.t = "num" /\ r.last.t = "num"
    /\ r.cur.n >= r.last.n

\* C1: a fetch issues at most PageLimit (1000) page requests: while the
\* loop runs, the requests issued are one fewer than the page number, which
\* is at most PageLimit, so the loop ends after at most PageLimit
\* iterations; and the loop never goes on after a page that reports
\* current_page >= last_page.
C1_PageLoopBounded ==
    /\ reqs <= PageLimit
    /\ pc = "fetch" => page = reqs + 1 /\ page <= PageLimit
    /\ pc = "fetch" /\ reqs > 0 => ~ReportsLastPage(resp)

\* The safety limit ended a fetch: page 1000 was requested and no other.
C1_LimitReached ==
    /\ pc = "idle"
    /\ reqs = PageLimit
    /\ page > PageLimit
    /\ ret.kind = "returned"

\* C2: a call of fetch_contacts while the record cache is present issues no
\* request, returns exactly the cached sequence and leaves the cache as it
\* is, so the next call finds the same cache and does the same.  (The pages
\* call fetch_contacts only after check_auth, so the call is authenticated.)
C2_CacheHitIdempotent ==
    [][op'.name = "fetch_contacts" /\ contacts_cache # None =>
          /\ pc' = "idle"
          /\ reqs' = 0
          /\ ret' = Outcome("returned", Get(contacts_cache), TRUE)
          /\ contacts_cache' = contacts_cache]_vars

\* A later run's fetch_contacts call was served a non-empty cache.
C2_ServedFromCache ==
    /\ op = [name |-> "fetch_contacts", cached |-> TRUE]
    /\ runs = MaxRuns
    /\ ret.hit
    /\ ret.value # <<>>
    /\ ret.value = Get(contacts_cache)
    /\ reqs = 0

\* A structured record with a non-null id.
IsRecord(e) == e.dict /\ e.id # None

AllRecords(seq) == \A i \in DOMAIN seq : IsRecord(seq[i])

\* C3: every element of the record cache, of the sequence fetch_contacts
\* accumulates and of every sequence it returns is a structured record with
\* a non-null id, whatever the pages contained.
C3_OnlyRecordsKept ==
    /\ contacts_cache # None => AllRecords(Get(contacts_cache))
    /\ AllRecords(all_contacts)
    /\ AllRecords(ret.value)

\* A fetch whose last page mixed records with invalid entries has returned
\* and cached a non-empty sequence.
C3_MixedBatchCached ==
    /\ pc = "idle"
    /\ ret.kind = "returned"
    /\ ~ret.hit
    /\ ret.value # <<>>
    /\ contacts_cache = Some(ret.value)
    /\ \E i \in DOMAIN Iterated(resp) : ~IsRecord(Iterated(resp)[i])

\* C4: a fetch with the ceiling max_contacts = N to which the server's
\* pages served N valid records or more returns exactly the first N of
\* them, in the order served, caches them, and requests no page once N are
\* accumulated.
C4_TruncatedToPrefix ==
    /\ pc = "fetch" /\ max_contacts # 0 => Len(all_contacts) < max_contacts
    /\ pc = "idle" /\ reqs > 0 /\ max_contacts # 0 /\ Len(served) >= max_contacts =>
          /\ ret = Outcome("returned", SubSeq(served, 1, max_contacts), FALSE)
          /\ Len(ret.value) = max_contacts
          /\ contacts_cache = Some(ret.value)

\* The second page took the fetch over its ceiling of two records and the
\* first two served were returned.
C4_CutOnSecondPage ==
    /\ pc = "idle"
    /\ max_contacts = 2
    /\ lastReq = 2
    /\ Len(prior) = 1
    /\ Len(served) > max_contacts
    /\ ret.kind = "returned"
    /\ ret.value = SubSeq(served, 1, 2)

\* The pagination metadata of response r, read at page pg, tells of a later
\* page.
TellsOfLaterPage(r, pg) ==
    /\ r.shape = "wrapped"
    /\ r.cur.t \in {"num", "absent"}
    /\ r.last.t = "num"
    /\ (IF r.cur.t = "absent" THEN pg ELSE r.cur.n) < r.last.n

\* C5: a page request whose batch is iterated accumulates exactly the
\* batch's entries that are objects with a non-null id, in batch order
\* (cut to the ceiling once it is reached); every other entry adds exactly
\* one error-log entry and nothing else is logged; and a batch with invalid
\* entries stops neither the rest of the batch nor the later pages: below
\* the ceiling, the loop goes on to the next page whenever the metadata
\* tells of one.
C5_InvalidEntriesSkipped ==
    [][op'.name = "page_request" /\ Iterated(resp') # <<>> =>
          LET batch == Iterated(resp')
              kept == all_contacts \o Records(batch)
              skipped == Len(batch) - Len(Records(batch))
              full == max_contacts # 0 /\ Len(kept) >= max_contacts
          IN  /\ all_contacts' = IF full THEN SubSeq(kept, 1, max_contacts) ELSE kept
              /\ Len(error_log') = Len(error_log) + skipped
              /\ \A i \in (Len(error_log) + 1)..Len(error_log') :
                     error_log'[i] = "Skipped invalid contact without ID"
              /\ SubSeq(error_log', 1, Len(error_log)) = error_log
              /\ ~full /\ TellsOfLaterPage(resp', page) =>
                     pc' = "fetch" /\ page' = page + 1]_vars

\* Page 1 held an invalid entry before a record: the entry is logged, the
\* record after it is kept, and the loop is on its way to page 2.
C5_SkippedThenKept ==
    /\ pc = "fetch"
    /\ page = 2
    /\ resp.items = <<NotDict, Contact(2)>>
    /\ all_contacts = <<Contact(2)>>
    /\ Len(error_log) = 1

\* The request failed: a transport failure, a status that is not 200, or a
\* body that does not parse.
FailedRequest(r) ==
    \/ r.kind \in TransportKinds
    \/ r.kind = "http" /\ r.status # 200
    \/ r.kind = "http" /\ r.status = 200 /\ r.shape = "unparseable"

\* C6: the record cache becomes present only by a successful fetch: after
\* a fetch_contacts run that ended on a failed page request (transport
\* failure, non-200 status, unparseable body) the cache is still absent.
\* The code does not keep this: line 258 caches what was accumulated
\* whenever the loop is left by break.
C6_FailedFetchLeavesCacheAbsent ==
    pc = "idle" /\ reqs > 0 /\ FailedRequest(resp) => contacts_cache = None

\* The operations that invalidate the record cache: the Refresh button, a
\* connection test answered 200, a creation answered 200 or 201.
Invalidations == {"refresh", "test_ok", "create_ok"}

\* C7: the record cache goes from present to absent only in a refresh, a
\* successful connection test or a successful creation; each of the three
\* leaves it absent; and no step changes a present cache in any other way
\* than by making it absent.
C7_InvalidatedByThreeEvents ==
    [][/\ contacts_cache # None /\ contacts_cache' = None => op'.name \in Invalidations
       /\ op'.name \in Invalidations => contacts_cache' = None
       /\ contacts_cache # None => contacts_cache' \in {contacts_cache, None}]_vars

\* A creation answered 200 or 201 has made a loaded, non-empty cache absent.
C7_CreationInvalidated ==
    /\ op = [name |-> "create_ok", cached |-> TRUE]
    /\ contacts_cache = None
    /\ authenticated

\* C8: a call of fetch_contacts made while the record cache is absent
\* enters the page loop with nothing accumulated, and the loop's first
\* request is the one for page 1.
C8_MissFetchesFromPageOne ==
    [][/\ op'.name = "fetch_contacts" /\ contacts_cache = None =>
             /\ pc' = "fetch"
             /\ page' = 1
             /\ all_contacts' = <<>>
             /\ reqs' = 0
       /\ op.name = "fetch_contacts" /\ pc = "fetch" /\ op'.name = "page_request" =>
             reqs' = 1 /\ lastReq' = 1]_vars

\* After an earlier fetch (the one that logged its failed page), the cache
\* is absent again, fetch_contacts was called, and page 1 has been
\* requested and has served records.
C8_FetchedAgain ==
    /\ runs >= 2
    /\ op = [name |-> "page_request", cached |-> FALSE]
    /\ reqs = 1
    /\ lastReq = 1
    /\ resp.items # <<>>
    /\ error_log = <<"Failed to fetch contacts on page">>

\* The request got a non-success response: a transport failure or a status
\* that is not 200.
NonSuccess(r) == r.kind \in TransportKinds \/ (r.kind = "http" /\ r.status # 200)

\* C9: when the request for a page k > 1 gets a non-success response, the
\* fetch is over with that request (no further page is requested) and
\* fetch_contacts has returned exactly the records that pages 1..k-1
\* served, in order.
C9_FailureKeepsEarlierPages ==
    reqs > 1 /\ NonSuccess(resp) =>
        /\ pc = "idle"
        /\ lastReq = reqs
        /\ ret = Outcome("returned", served, FALSE)

\* Page 3 failed after pages 1 and 2 had served one record each.
C9_ThirdPageFailed ==
    /\ reqs = 3
    /\ NonSuccess(resp)
    /\ Len(served) = 2
    /\ ret.value = served

\* The body of a 200 response does not have the expected shape: it does not
\* parse, its 'data' member is not a sequence, or current_page / last_page
\* is null or not a number.
Malformed(r) ==
    /\ r.kind = "http" /\ r.status = 200
    /\ \/ r.shape = "unparseable"
       \/ r.shape = "wrapped" /\ r.dtype # "list"
       \/ r.shape = "wrapped" /\ r.cur.t \in {"null", "str"}
       \/ r.shape = "wrapped" /\ r.last.t \in {"null", "str"}

\* C10: when the body of page k is malformed, the page is abandoned and
\* fetch_contacts returns the records accumulated from pages 1..k-1; no
\* exception leaves fetch_contacts.  The code does not keep this: the
\* comparison of line 244 and the for loop of line 228 raise TypeError on
\* such bodies.
C10_MalformedPageAbandoned ==
    reqs > 0 /\ Malformed(resp) =>
        /\ pc = "idle"
        /\ ret.kind # "raised"
        /\ ret = Outcome("returned", prior, FALSE)

\* No two positions of the sequence hold records with the same id.
DistinctIds(seq) ==
    \A i, j \in DOMAIN seq : i # j => seq[i].id # seq[j].id

\* C11: the record cache never holds two records with the same id, also
\* when the server sends an id twice.  The code does not keep this: line
\* 230 appends every valid entry and nothing compares ids.
C11_NoDuplicateIds ==
    contacts_cache # None => DistinctIds(Get(contacts_cache))

\* Sequence a is the beginning of sequence b.
IsPrefix(a, b) == Len(a) <= Len(b) /\ a = SubSeq(b, 1, Len(a))

\* C12: the page requests of one fetch carry the page numbers 1, 2, 3, ...
\* each one more than the request before, whatever current_page the server
\* reports; and what is accumulated and returned keeps the order received:
\* it is a beginning of the served records of page 1, then those of page
\* 2, ... each page's in batch order, and a page only adds at the end.
C12_PagesAndRecordsInOrder ==
    [][/\ op'.name = "page_request" =>
             /\ lastReq' = lastReq + 1
             /\ lastReq' = reqs'
             /\ IsPrefix(all_contacts', served')
             /\ IsPrefix(all_contacts, all_contacts') \/ IsPrefix(all_contacts', all_contacts)
       /\ ret'.kind = "returned" /\ ~ret'.hit => IsPrefix(ret'.value, served')]_vars

\* Page 2 reported current_page 1 and the loop goes on to page 3; the
\* record of page 1 stands before the record of page 2.
C12_SecondPageAppended ==
    /\ pc = "fetch"
    /\ lastReq = 2
    /\ page = 3
    /\ resp.cur = JNum(1)
    /\ prior = <<Contact(2)>>
    /\ all_contacts = <<Contact(2), Contact(1)>>

\* C13: the JSON export of all contacts holds every valid record the pages
\* served to the fetch that loaded the contacts, whatever preceded the
\* export.  The code does not keep this: the export page takes the cache
\* that View Contacts filled under its max_contacts ceiling.
C13_ExportHoldsEveryRecord ==
    download.kind = "contacts" =>
        download.doc = [i \in DOMAIN served |-> [id |-> Get(served[i].id)]]

\* The text is absent or holds nothing but whitespace.
Blank(text) == \A i \in DOMAIN text : text[i] = " "

\* C14: the handling of a submission whose email is absent or blank makes
\* no POST and leaves the record cache, the field-schema cache and the error
\* log as they are.
C14_BlankEmailRejected ==
    [][pc = "submit" /\ form'.inputs # None /\ Blank(Get(form'.inputs).email) =>
          /\ form'.posted = None
          /\ contacts_cache' = contacts_cache
          /\ custom_fields_cache' = custom_fields_cache
          /\ error_log' = error_log]_vars

\* A submission with a whitespace-only email was rejected while the record
\* cache was loaded; the cache is still there.
C14_WhitespaceRejected ==
    /\ form.inputs # None
    /\ Get(form.inputs).email = <<" ">>
    /\ form.posted = None
    /\ op = [name |-> "create_rejected", cached |-> TRUE]
    /\ contacts_cache # None

\* The text without the whitespace before its first and after its last
\* other character.
Trimmed(text) ==
    LET at == {i \in DOMAIN text : text[i] # " "}
    IN  IF at = {} THEN <<>>
        ELSE SubSeq(text, CHOOSE i \in at : \A j \in at : i <= j,
                          CHOOSE i \in at : \A j \in at : j <= i)

\* C15: the payload of the POST made for an accepted submission has the
\* trimmed email and the status; it has a text field's key exactly when the
\* input is not blank, with the trimmed input; the date of birth, the tags
\* and the lists exactly when they are set; custom_values exactly when some
\* custom value is non-empty, holding exactly the non-empty ones; and no
\* other key.
C15_PayloadHoldsNonEmptyInputs ==
    form.posted # None =>
        LET in == Get(form.inputs)
            data == Get(form.posted)
            filled == {k \in DOMAIN in.custom : in.custom[k] # <<>>}
        IN  /\ DOMAIN data \subseteq
                   {"email", "status", "date_of_birth", "tags", "lists", "custom_values"}
                   \cup ScalarKeySet
            /\ "email" \in DOMAIN data /\ data["email"] = Trimmed(in.email)
            /\ data["email"] # <<>>
            /\ "status" \in DOMAIN data /\ data["status"] = in.status
            /\ \A k \in ScalarKeySet :
                   /\ k \in DOMAIN data <=> ~Blank(in.scalars[k])
                   /\ k \in DOMAIN data => data[k] = Trimmed(in.scalars[k])
            /\ "date_of_birth" \in DOMAIN data <=> in.dob # None
            /\ "tags" \in DOMAIN data <=> in.tags # <<>>
            /\ "tags" \in DOMAIN data => data["tags"] = in.tags
            /\ "lists" \in DOMAIN data <=> in.lists # <<>>
            /\ "lists" \in DOMAIN data => data["lists"] = in.lists
            /\ "custom_values" \in DOMAIN data <=> filled # {}
            /\ "custom_values" \in DOMAIN data =>
                   data["custom_values"] = [k \in filled |-> in.custom[k]]

\* A payload with a text field, tags and custom values, made from a form
\* one of whose custom values was left empty.
C15_PartlyFilledForm ==
    /\ form.posted # None
    /\ {"phone", "tags", "custom_values"} \subseteq DOMAIN Get(form.posted)
    /\ "lists" \notin DOMAIN Get(form.posted)
    /\ DOMAIN Get(form.posted)["custom_values"] = {"tier"}
    /\ Get(form.inputs).custom["company"] = <<>>

\* The records the export page passes to convert_to_n8n: the loaded ones
\* whose id is selected, in the order loaded.
Converted ==
    SelectSeq(Get(contacts_cache),
              LAMBDA c : \E k \in DOMAIN download.selection :
                             c.id = Some(download.selection[k]))

\* C16: convert_to_n8n of n records yields n nodes, with the ids contact_0
\* .. contact_(n-1) and the records' ids in input order, and max(n-1, 0)
\* connections: one from contact_(i-1) to contact_i for every 0 < i < n and
\* no other, so the last node has none and no node has two.
C16_LinearChain ==
    download.kind = "n8n" =>
        LET nodes == download.doc.nodes
            links == download.doc.connections
            n == Len(Converted)
        IN  /\ Len(nodes) = n
            /\ \A i \in 1..n :
                   /\ nodes[i].id = <<"contact_", i - 1>>
                   /\ nodes[i].value = [str |-> Get(Converted[i].id)]
            /\ DOMAIN links = {<<"contact_", i - 1>> : i \in 1..(n - 1)}
            /\ Cardinality(DOMAIN links) = IF n > 0 THEN n - 1 ELSE 0
            /\ \A i \in 1..(n - 1) : links[<<"contact_", i - 1>>] = <<"contact_", i>>

\* Three records were converted: three nodes and two connections.
C16_ThreeNodesTwoLinks ==
    /\ download.kind = "n8n"
    /\ Len(download.doc.nodes) = 3
    /\ Cardinality(DOMAIN download.doc.connections) = 2

\* C17: the workflow graph of the export page has one node per selected
\* record, in the order the records were selected.  The code does not
\* keep this: line 816 takes the loaded contacts whose id is selected, in
\* the order loaded and as often as the id occurs.
C17_NodesFollowSelection ==
    download.kind = "n8n" =>
        /\ Len(download.doc.nodes) = Len(download.selection)
        /\ \A i \in DOMAIN download.selection :
               download.doc.nodes[i].value = [str |-> download.selection[i]]

\* The last n elements of the sequence, all of it if it is shorter.
LastOf(seq, n) == IF Len(seq) > n THEN SubSeq(seq, Len(seq) - n + 1, Len(seq)) ELSE seq

\* What a page request with response r logs, in the order logged: the
\* transport's failure or the parse failure, an entry for every invalid
\* entry of the batch, and the page limit's entry when the limit ends the
\* loop.
LoggedByPage(r, limit) ==
    (IF r.kind = "timeout" THEN <<"API request timeout">> ELSE <<>>)
    \o (IF r.kind = "http" /\ r.status = 200 /\ r.shape = "unparseable"
        THEN <<"Failed to parse JSON response">> ELSE <<>>)
    \o [i \in 1..(Len(Iterated(r)) - Len(Records(Iterated(r)))) |->
           "Skipped invalid contact without ID"]
    \o (IF limit THEN <<"Reached maximum page limit (1000)">> ELSE <<>>)

\* C18: the error log never holds more than 100 entries, and after every
\* step it is the last 100 of what it held followed by what the step
\* logged, in the order logged: on a full log the oldest entries go.
C18_LogKeepsLatestHundred ==
    [][/\ Len(error_log') <= 100
       /\ error_log' =
             IF op'.name = "page_request"
             THEN LastOf(error_log \o LoggedByPage(resp', page' > PageLimit), 100)
             ELSE error_log]_vars

\* A thousand pages with an invalid entry each filled the log many times
\* over; its last entry is the page limit's, logged last.
C18_FullLogRolledOver ==
    /\ reqs = PageLimit
    /\ Len(error_log) = 100
    /\ error_log[1] = "Skipped invalid contact without ID"
    /\ error_log[100] = "Reached maximum page limit (1000)"

\* C19: no request is made again.  A page request is one attempt, for a
\* page number above every one requested before in this fetch; and a
\* timeout, a connection failure or a status that is not 200 ends the
\* fetch, so that the failed page is not asked for a second time.
C19_NoRetry ==
    [][op'.name = "page_request" =>
          /\ reqs' = reqs + 1
          /\ lastReq' > lastReq
          /\ NonSuccess(resp') => pc' = "idle" /\ ret'.kind = "returned"]_vars

\* The request for page 2 timed out: two requests were made, and the fetch
\* is over.
C19_TimeoutNotRetried ==
    /\ resp.kind = "timeout"
    /\ reqs = 2
    /\ lastReq = 2
    /\ pc = "idle"
    /\ ret.kind = "returned"
    /\ error_log # <<>>
    /\ error_log[Len(error_log)] = "API request timeout"

\* C20: the two caches are independent.  The contacts refresh, a call of
\* fetch_contacts with its page requests, and a successful creation leave
\* the field-schema cache as it is; the custom-fields refresh and every
\* call of fetch_custom_fields (on the custom-fields page, for the creation
\* form, for the export of the fields) leave the record cache as it is.
C20_CachesIndependent ==
    [][/\ \/ op'.name \in {"refresh", "page_request", "create_ok"}
          \/ op'.name = "fetch_contacts" /\ event # "export_fields"
          => custom_fields_cache' = custom_fields_cache
       /\ \/ op'.name \in {"custom_fields", "form_fields"}
          \/ op'.name = "fetch_contacts" /\ event = "export_fields"
          => contacts_cache' = contacts_cache]_vars

\* With records loaded, the custom-fields page fetched the schema and the
\* fetch failed: the records are still there.
C20_FieldsFetchedBesideRecords ==
    /\ op = [name |-> "custom_fields", cached |-> TRUE]
    /\ page_sel = "Custom Fields"
    /\ custom_fields_cache = None
    /\ error_log = <<"Failed to fetch custom fields">>
    /\ contacts_cache # None
    /\ Get(contacts_cache) # <<>>

\* The entry lacks a slug or a label (line 622), or is no object at all.
Lacking(field) == ~field.dict \/ field.slug = "" \/ field.label = ""

\* The positions of the schema the form has a widget for.
SlotSet == {form.slots[i] : i \in DOMAIN form.slots}

\* The keys of the custom values of the payload posted by this run.
PostedCustomKeys ==
    IF form.posted # None /\ "custom_values" \in DOMAIN Get(form.posted)
    THEN DOMAIN Get(form.posted)["custom_values"]
    ELSE {}

\* C21 as stated: a schema entry that lacks a slug or a label has no input
\* slot in the form, and its slug is no key of the custom values of the
\* payload.
C21_LackingEntryKeyNeverPosted ==
    \A j \in DOMAIN FormFields :
        Lacking(FormFields[j]) =>
            /\ j \notin SlotSet
            /\ FormFields[j].slug \notin PostedCustomKeys

\* C21, amended: a schema entry that lacks a slug or a label has no input
\* slot in the form, and every key of the custom values of a payload is the
\* slug of an entry that has a slot, so one with both a slug and a label.
C21_KeysOnlyFromSlots ==
    /\ \A j \in DOMAIN FormFields : Lacking(FormFields[j]) => j \notin SlotSet
    /\ SlotSet \subseteq DOMAIN FormFields
    /\ \A k \in PostedCustomKeys :
           \E j \in SlotSet : FormFields[j].slug = k /\ ~Lacking(FormFields[j])

\* A payload with a custom value was posted from a form whose schema has
\* an entry without a label, one without a slug and a well-formed one.
C21_PostedBesideLackingEntries ==
    /\ op.name = "create_ok"
    /\ PostedCustomKeys = {"company"}
    /\ form.slots = <<4>>
    /\ Len(FormFields) = 4
    /\ FormFields[1].slug = "note" /\ FormFields[1].label = ""
    /\ ~FormFields[2].dict

\* C22: the page loop stops as soon as a page yields no new record: while
\* the loop goes on to a further page, the page just received (empty, or
\* with invalid entries only, or with records) added a record to the
\* accumulated sequence.
C22_StopsOnZeroNewRecords ==
    pc = "fetch" /\ reqs > 0 => Len(all_contacts) > Len(prior)

\* C23: make_api_request returns the response unchanged for every
\* completed round trip, whatever its status, and logs nothing; on a
\* timeout, a connection failure or any other exception it returns None
\* and adds exactly one entry to the log; no exception leaves it.
C23_ResponseOrLoggedNone ==
    [][op'.name = "make_api_request" =>
          /\ ret'.kind = "returned"
          /\ resp'.kind = "http" =>
                 /\ ret'.value = Some(resp')
                 /\ error_log' = error_log
          /\ resp'.kind # "http" =>
                 /\ ret'.value = None
                 /\ Len(error_log') = Len(error_log) + 1
                 /\ SubSeq(error_log', 1, Len(error_log)) = error_log]_vars

\* A 404 was returned as it came, after a timeout and an unsupported
\* method had each been logged.
C23_ErrorStatusReturned ==
    /\ op.name = "make_api_request"
    /\ ret = Outcome("returned", Some(Status(404)), FALSE)
    /\ error_log = <<"API request timeout", "API request error">>

\* The request was answered 200 with a body that parses.
ParsedOk(r) == r.kind = "http" /\ r.status = 200 /\ r.shape # "unparseable"

\* C24: the field-schema cache becomes present only by a call of
\* fetch_custom_fields whose request was answered 200 with a body that
\* parses; a call whose request failed in transport, was answered with
\* another status or with a body that does not parse returns the empty
\* sequence and leaves the cache absent, as it was, so that the next call
\* makes a request again.
C24_FieldCacheFilledOnSuccessOnly ==
    [][/\ custom_fields_cache = None /\ custom_fields_cache' # None =>
              /\ op'.name = "fetch_custom_fields"
              /\ ParsedOk(resp')
              /\ custom_fields_cache' = Some(ret'.value)
       /\ op'.name = "fetch_custom_fields" /\ resp' # NoResponse /\ ~ParsedOk(resp') =>
              /\ ret'.value = <<>>
              /\ custom_fields_cache' = custom_fields_cache
              /\ custom_fields_cache' = None
       /\ op.name = "fetch_custom_fields" /\ resp # NoResponse /\ ~ParsedOk(resp)
          /\ op'.name = "fetch_custom_fields" =>
              resp' # NoResponse]_vars

\* A call after a failed one made a request again, got the schema and
\* cached it.
C24_FetchedAgainAfterFailure ==
    /\ op.name = "fetch_custom_fields"
    /\ error_log = <<"Failed to parse custom fields">>
    /\ resp = Wrapped("list", <<Field("company", "Company", "text", <<>>)>>, JAbsent, JAbsent)
    /\ custom_fields_cache = Some(resp.items)
    /\ ret.value = resp.items

\* The step was a press of the Test Connection button.
IsTest(o) == o.name \in {"test_ok", "test_failed", "test_skipped"}

\* C25: a connection test sends a request unless the username or the
\* password is empty; one that sent a request sets the authenticated flag
\* to whether the answer had status 200 (so another status, a timeout, a
\* connection error and any other exception make it false); one that sent
\* none changes neither the flag nor the caches nor the log; and no other
\* step (fetches, record creation, page functions) changes the flag.  So
\* the flag is true exactly when the latest test that sent a request was
\* answered 200.
C25_FlagFollowsLatestTest ==
    [][/\ IsTest(op') => (resp' = NoResponse <=> api_username' = "" \/ api_password' = "")
       /\ IsTest(op') /\ resp' # NoResponse =>
              authenticated' = (resp'.kind = "http" /\ resp'.status = 200)
       /\ IsTest(op') /\ resp' = NoResponse =>
              UNCHANGED <<authenticated, contacts_cache, custom_fields_cache, error_log>>
       /\ ~IsTest(op') => authenticated' = authenticated]_vars

\* A session that was connected and had fetched its records lost the
\* flag to a test answered 204.
C25_DisconnectedBy204 ==
    /\ IsTest(op)
    /\ resp = Status(204)
    /\ ~authenticated
    /\ contacts_cache # None
    /\ Get(contacts_cache) # <<>>

\* C26: a call of fetch_contacts with a ceiling max_contacts = N > 0
\* returns at most N records, served from the cache or fetched, whatever
\* the ceilings of earlier calls.
C26_AtMostCeilingReturned ==
    ret.kind = "returned" /\ max_contacts > 0 => Len(ret.value) <= max_contacts

\* C27: a collection that fetch_contacts or fetch_custom_fields serves from
\* its cache was fetched with the base URL, username and password that the
\* session state holds now.
C27_ServedUnderCurrentConfig ==
    /\ op.name = "fetch_contacts" /\ ret.hit => origin.contacts = Some(Config)
    /\ op.name = "custom_fields" /\ custom_fields_cache # None =>
           origin.fields = Some(Config)

\* The step was a call of one of the three fetch functions.
IsFetchCall(o) == o.name \in {"fetch_contacts", "fetch_custom_fields", "fetch_tags_and_lists"}

\* C28: a call of fetch_contacts, fetch_custom_fields or
\* fetch_tags_and_lists while the authenticated flag is false makes no
\* request (and starts no page loop), returns an empty result and leaves
\* both caches as they are, present or not.
C28_NothingFetchedUnauthenticated ==
    [][~authenticated /\ IsFetchCall(op') =>
          /\ reqs' = reqs
          /\ pc' = "idle"
          /\ ret'.kind = "returned"
          /\ ret'.value = <<>>
          /\ UNCHANGED <<contacts_cache, custom_fields_cache>>]_vars

\* After a failed connection test, fetch_custom_fields returned nothing
\* although the schema is cached.
C28_CachedSchemaWithheld ==
    /\ op.name = "fetch_custom_fields"
    /\ ~authenticated
    /\ custom_fields_cache # None
    /\ Get(custom_fields_cache) # <<>>
    /\ ret = Outcome("returned", <<>>, FALSE)
    /\ resp = NoResponse

====
